---------------------------- MODULE Spec2Model ----------------------------
(***************************************************************************)
(* A model of omar (src/src/main.rs): a batch report over the model        *)
(* manifests and the server logs of a local model runtime.                 *)
(*                                                                         *)
(*   find_model_manifests  builds hash -> (joined names, size)             *)
(*   parse_logs            aggregates load events into usages by name      *)
(*   main                  partitions, sorts and prints three tables       *)
(*                                                                         *)
(* Strings are TLA+ strings used as character sequences (Len, SubSeq, \o). *)
(* Paths are sequences of components, as Path::components() yields them.   *)
(* Instants are seconds since the Unix epoch.                              *)
(***************************************************************************)
EXTENDS Integers, Sequences, FiniteSets, TLC

\* Bounds of the exploration: the files of a manifest tree, the log files of
\* a run, and the log lines of a run (over all its files).
MaxManifests == 3
MaxLogFiles == 2
MaxLines == 4

None == "<none>"

-----------------------------------------------------------------------------
(* String primitives of the Rust standard library, as the code uses them.  *)

Char(s, i) == SubSeq(s, i, i)

StartsWith(s, p) == Len(s) >= Len(p) /\ SubSeq(s, 1, Len(p)) = p

EndsWith(s, p) == Len(s) >= Len(p) /\ SubSeq(s, Len(s) - Len(p) + 1, Len(s)) = p

\* str::find: the 0-based byte offset of the first match, or -1 for None.
Find(s, p) ==
    LET hits == {i \in 1..(Len(s) - Len(p) + 1) : SubSeq(s, i, i + Len(p) - 1) = p}
    IN  IF hits = {} THEN -1
        ELSE (CHOOSE i \in hits : \A j \in hits : i <= j) - 1

\* str::strip_prefix(p).unwrap_or(s)
StripPrefixOr(s, p) == IF StartsWith(s, p) THEN SubSeq(s, Len(p) + 1, Len(s)) ELSE s

\* str::split(sep), collected: never empty, "" splits into <<"">>.
RECURSIVE Split(_, _)
Split(s, sep) ==
    LET at == Find(s, sep)
    IN  IF at < 0 THEN <<s>>
        ELSE <<SubSeq(s, 1, at)>> \o Split(SubSeq(s, at + Len(sep) + 1, Len(s)), sep)

Range(f) == {f[i] : i \in DOMAIN f}

\* Byte order of the characters that occur in names (ASCII order).
Alphabet == " ,-./0123456789:_abcdefghijklmnopqrstuvwxyz"

Ord(c) == IF \E i \in 1..Len(Alphabet) : Char(Alphabet, i) = c
          THEN CHOOSE i \in 1..Len(Alphabet) : Char(Alphabet, i) = c
          ELSE 0

\* Ord for str: a < b bytewise.
RECURSIVE StrLess(_, _)
StrLess(a, b) ==
    IF Len(b) = 0 THEN FALSE
    ELSE IF Len(a) = 0 THEN TRUE
    ELSE IF Char(a, 1) = Char(b, 1)
         THEN StrLess(SubSeq(a, 2, Len(a)), SubSeq(b, 2, Len(b)))
         ELSE Ord(Char(a, 1)) < Ord(Char(b, 1))

Digits == "0123456789"

IsDigits(s) == \A i \in 1..Len(s) : \E d \in 1..10 : Char(Digits, d) = Char(s, i)

RECURSIVE ToNat(_)
ToNat(s) ==
    IF Len(s) = 0 THEN 0
    ELSE ToNat(SubSeq(s, 1, Len(s) - 1)) * 10
         + (CHOOSE d \in 0..9 : Char(Digits, d + 1) = Char(s, Len(s)))

HexDigits == {"0", "1", "2", "3", "4", "5", "6", "7", "8", "9", "a", "b", "c", "d", "e", "f"}

IsLowerHex(s) == \A i \in 1..Len(s) : Char(s, i) \in HexDigits

-----------------------------------------------------------------------------
(* Date-time parsing (chrono), on the fixed-width forms the logs carry.    *)

\* Days since 1970-01-01 of a civil date.
DaysFromCivil(y, m, d) ==
    LET yy  == IF m <= 2 THEN y - 1 ELSE y
        era == yy \div 400
        yoe == yy - era * 400
        mp  == (m + 9) % 12
        doy == (153 * mp + 2) \div 5 + d - 1
        doe == yoe * 365 + yoe \div 4 - yoe \div 100 + doy
    IN  era * 146097 + doe - 719468

\* The fields of "YYYY?MM?DD?HH:MM:SS" with date separator ds and date/time
\* separator ts, as seconds since the epoch read as UTC; -1 when malformed.
CivilSeconds(s, ds, ts) ==
    IF /\ Len(s) = 19
       /\ Char(s, 5) = ds /\ Char(s, 8) = ds /\ Char(s, 11) = ts
       /\ Char(s, 14) = ":" /\ Char(s, 17) = ":"
       /\ IsDigits(SubSeq(s, 1, 4)) /\ IsDigits(SubSeq(s, 6, 7))
       /\ IsDigits(SubSeq(s, 9, 10)) /\ IsDigits(SubSeq(s, 12, 13))
       /\ IsDigits(SubSeq(s, 15, 16)) /\ IsDigits(SubSeq(s, 18, 19))
       /\ ToNat(SubSeq(s, 6, 7)) \in 1..12 /\ ToNat(SubSeq(s, 9, 10)) \in 1..31
       /\ ToNat(SubSeq(s, 12, 13)) < 24 /\ ToNat(SubSeq(s, 15, 16)) < 60
       /\ ToNat(SubSeq(s, 18, 19)) < 60
    THEN DaysFromCivil(ToNat(SubSeq(s, 1, 4)), ToNat(SubSeq(s, 6, 7)),
                       ToNat(SubSeq(s, 9, 10))) * 86400
         + ToNat(SubSeq(s, 12, 13)) * 3600 + ToNat(SubSeq(s, 15, 16)) * 60
         + ToNat(SubSeq(s, 18, 19))
    ELSE -1

\* A UTC offset is "Z" or "+HH:MM" / "-HH:MM".
IsOffset(z) ==
    \/ z = "Z"
    \/ /\ Len(z) = 6 /\ Char(z, 1) \in {"+", "-"} /\ Char(z, 4) = ":"
       /\ IsDigits(SubSeq(z, 2, 3)) /\ IsDigits(SubSeq(z, 5, 6))
       /\ ToNat(SubSeq(z, 2, 3)) < 24 /\ ToNat(SubSeq(z, 5, 6)) < 60

OffsetSeconds(z) ==
    IF z = "Z" THEN 0
    ELSE (IF Char(z, 1) = "-" THEN -1 ELSE 1)
         * (ToNat(SubSeq(z, 2, 3)) * 3600 + ToNat(SubSeq(z, 5, 6)) * 60)

\* DateTime::parse_from_rfc3339 on the whole of s: the instant, or -1 for Err.
\* (Whole seconds only; trailing text after the offset is an error.)
ParseRfc3339(s) ==
    IF Len(s) < 20 THEN -1
    ELSE LET civil == CivilSeconds(SubSeq(s, 1, 19), "-", "T")
             z     == SubSeq(s, 20, Len(s))
         IN  IF civil < 0 \/ ~IsOffset(z) THEN -1 ELSE civil - OffsetSeconds(z)

\* The offset of the Local time zone from UTC, in seconds.
LocalOffset == 2 * 3600

\* NaiveDateTime::parse_from_str(s, "%Y/%m/%d %H:%M:%S") read in Local.
ParseLocalSlash(s) ==
    LET civil == CivilSeconds(s, "/", " ")
    IN  IF civil < 0 THEN -1 ELSE civil - LocalOffset

-----------------------------------------------------------------------------
(* The inputs: the manifest tree and the log lines the run may meet.       *)

Rep8(s) == s \o s \o s \o s \o s \o s \o s \o s

\* Two content hashes (64 lowercase hex characters each).
HashA == Rep8("deadbeef")
HashB == Rep8("0123abcd")

ModelMediaType == "application/vnd.ollama.image.model"

ConfigLayer == [media_type |-> "application/vnd.docker.container.image.v1+json",
                digest |-> "sha256:" \o Rep8("c0ffee00"), size |-> 485]

ModelLayerOf(digest, size) ==
    [media_type |-> ModelMediaType, digest |-> digest, size |-> size]

\* What serde_json makes of a file's content: a ModelManifest, or an Err.
Manifest(layers) == [json |-> TRUE, layers |-> layers]
NotAManifest == [json |-> FALSE, layers |-> <<>>]

\* The files that may lie under <model dir>/manifests, by their path
\* relative to that directory.
ManifestFiles ==
    { [rel |-> <<"registry.ollama.ai", "library", "llama3", "8b">>,
       content |-> Manifest(<<ConfigLayer, ModelLayerOf("sha256:" \o HashA, 4096)>>)],
      [rel |-> <<"registry.ollama.ai", "library", "llama3", "latest">>,
       content |-> Manifest(<<ModelLayerOf(HashA, 8192), ConfigLayer>>)],
      [rel |-> <<"hf.co", "library", "llama3", "8b">>,
       content |-> Manifest(<<ModelLayerOf("sha256:" \o HashB, 1024)>>)],
      [rel |-> <<"hf.co", "library", "llama3", "latest">>,
       content |-> Manifest(<<ModelLayerOf("sha256:" \o HashA, 8192)>>)],
      [rel |-> <<"registry.ollama.ai", "alice", "custom", "v1-deleted">>,
       content |-> Manifest(<<ModelLayerOf("sha256:" \o HashB, 2048)>>)],
      [rel |-> <<"stray">>,
       content |-> Manifest(<<ModelLayerOf("sha256:" \o HashA, 4096)>>)],
      [rel |-> <<"registry.ollama.ai", "library", "llama3", "notes.txt">>,
       content |-> NotAManifest],
      [rel |-> <<"registry.ollama.ai", "library", "empty", "v0">>,
       content |-> Manifest(<<ConfigLayer>>)] }

File(rel) == CHOOSE f \in ManifestFiles : f.rel = rel

\* The manifest trees the whole run is explored on.
Trees ==
    { {File(<<"registry.ollama.ai", "library", "llama3", "8b">>)},
      {File(<<"registry.ollama.ai", "library", "llama3", "8b">>),
       File(<<"registry.ollama.ai", "library", "llama3", "latest">>),
       File(<<"hf.co", "library", "llama3", "8b">>)},
      {File(<<"registry.ollama.ai", "alice", "custom", "v1-deleted">>)} }

\* get_model_dir(), as path components: the Linux default /usr/share/ollama
\* (the root is a component of its own), or OLLAMA_MODELS set to "models".
ModelDirs == { <<"/", "usr", "share", "ollama">>, <<"models">> }

Marker == "llama_model_loader: loaded meta data"

LoadLine(token) == Marker \o " from /b/" \o token \o " (GGUF V3)"

\* The lines a server log may hold.
LogLines ==
    { "time=2024-05-01T10:00:00Z",
      "2024/05/02 12:00:00 routes.go:1 msg",
      "time=2024-05-04T10:00:00.000-07:00 level=INFO source=server.go",
      LoadLine("sha256-" \o HashA),
      LoadLine("sha256-" \o HashB),
      Marker \o " with 22 key-value pairs",
      Marker \o " from sha256-deadbeef",
      LoadLine("sha256-feedf00d") \o " and 291 tensors, digest elided, read in 12 ms",
      "llm_load_print_meta: format = GGUF V3" }

\* The modification times a log file may have.
FileTimes == { ParseRfc3339("2024-04-30T00:00:00Z"), ParseRfc3339("2024-05-05T00:00:00Z") }

\* Local::now() when the report is printed.
Now == ParseRfc3339("2024-06-01T00:00:00Z")

EmptyMap == [k \in {} |-> None]

-----------------------------------------------------------------------------
VARIABLES
    pc,                 \* "manifests", "logs" (between files), "lines" (in a file),
                        \* "done" (Ok), "error" (Err returned), "panic"
    model_dir,          \* get_model_dir()
    hash_to_name_size,  \* hash -> [name, size]
    tree,               \* the files under <model dir>/manifests
    n_globbed,          \* how many entries of the walk the glob loop has taken
    model_usage,        \* name -> ModelUsage
    seen_hashes,        \* the hashes of the load events processed
    file_time,          \* modification time of the log file being read
    last_timestamp,     \* the timestamp cursor of that file, or None
    n_files,            \* log files opened so far
    n_lines,            \* log lines read so far, over all files
    history,            \* history: name -> the load events resolved to it
    active_models,      \* main's three views
    deleted_models,
    unlogged_models,
    stdout,             \* the lines printed
    fatal               \* the failure that ended the run, or None

vars == <<pc, model_dir, tree, hash_to_name_size, n_globbed, model_usage, seen_hashes,
          file_time, last_timestamp, n_files, n_lines, history,
          active_models, deleted_models, unlogged_models, stdout, fatal>>

index_vars == <<hash_to_name_size, n_globbed>>
log_vars == <<model_usage, seen_hashes, file_time, last_timestamp, n_files, n_lines,
              history>>
report_vars == <<active_models, deleted_models, unlogged_models, stdout>>

-----------------------------------------------------------------------------
(* find_model_manifests                                                    *)

\* Path::file_name(): the last component, None when it is "..".
FileName(path) == IF path[Len(path)] = ".." THEN None ELSE path[Len(path)]

\* parse_manifest_path: the display name, or None.
parse_manifest_path(path) ==
    LET len == Len(path)
    IN  IF len >= 4
        THEN LET user  == path[len - 2]
                 model == path[len - 1]
                 tag   == FileName(path)
                 prefix == IF user = "library" THEN "" ELSE user \o "/"
             IN  IF tag = None THEN None ELSE prefix \o model \o ":" \o tag
        ELSE None

\* layers.iter().find(|l| l.media_type == model media type): its index, 0 for None.
FindModelLayer(layers) ==
    LET hits == {i \in 1..Len(layers) : layers[i].media_type = ModelMediaType}
    IN  IF hits = {} THEN 0 ELSE CHOOSE i \in hits : \A j \in hits : i <= j

\* digest.strip_prefix("sha256:").unwrap_or(digest)
NormalizeDigest(digest) == StripPrefixOr(digest, "sha256:")

\* IndexInsert, had it kept the size of the first manifest of a hash.
IndexInsertFirstSize(index, hash, model_name, size) ==
    LET old == IF hash \in DOMAIN index THEN index[hash] ELSE [name |-> "", size |-> size]
        sep == IF old.name # "" THEN ", " ELSE ""
        new == [name |-> old.name \o sep \o model_name, size |-> old.size]
    IN  [h \in DOMAIN index \cup {hash} |-> IF h = hash THEN new ELSE index[h]]

\* entry(hash).or_insert(("", 0)); append ", " and the name; overwrite the size.
IndexInsert(index, hash, model_name, size) ==
    LET old == IF hash \in DOMAIN index THEN index[hash] ELSE [name |-> "", size |-> 0]
        sep == IF old.name # "" THEN ", " ELSE ""
        new == [name |-> old.name \o sep \o model_name, size |-> size]
    IN  [h \in DOMAIN index \cup {hash} |-> IF h = hash THEN new ELSE index[h]]

\* The body of the glob loop for one readable file at `path`.
IndexManifest(index, path, content) ==
    IF ~content.json THEN index
    ELSE LET at == FindModelLayer(content.layers)
         IN  IF at = 0 THEN index
             ELSE LET layer == content.layers[at]
                      model_name == parse_manifest_path(path)
                  IN  IF model_name = None THEN index
                      ELSE IndexInsert(index, NormalizeDigest(layer.digest),
                                       model_name, layer.size)

ManifestDir == model_dir \o <<"manifests">>

\* glob yields paths in alphabetical order, a directory before what it holds.
RECURSIVE PathLess(_, _)
PathLess(p, q) ==
    IF q = <<>> THEN FALSE
    ELSE IF p = <<>> THEN TRUE
    ELSE IF Head(p) = Head(q) THEN PathLess(Tail(p), Tail(q))
    ELSE StrLess(Head(p), Head(q))

RECURSIVE SortPaths(_)
SortPaths(S) ==
    IF S = {} THEN <<>>
    ELSE LET least == CHOOSE p \in S : \A q \in S \ {p} : PathLess(p, q)
         IN  <<least>> \o SortPaths(S \ {least})

\* What "<manifest dir>/**/*" matches: the files and the directories above them.
Walk(files) ==
    LET rels == {f.rel : f \in files}
        dirs == UNION {{SubSeq(r, 1, k) : k \in 1..(Len(r) - 1)} : r \in rels}
    IN  SortPaths(rels \cup dirs)

IsFile(rel) == \E f \in tree : f.rel = rel

NextEntry == Walk(tree)[n_globbed + 1]

\* glob(...) fails on the pattern: "Failed to read glob pattern".
GlobPatternFail ==
    /\ pc = "manifests" /\ n_globbed = 0
    /\ pc' = "error" /\ fatal' = "glob pattern"
    /\ UNCHANGED <<model_dir, tree, index_vars, log_vars, report_vars>>

\* An entry of the walk is an error: "Failed to get manifest path".
GlobEntryFail ==
    /\ pc = "manifests"
    /\ pc' = "error" /\ fatal' = "glob entry"
    /\ UNCHANGED <<model_dir, tree, index_vars, log_vars, report_vars>>

\* read_to_string fails on a file: "Failed to read manifest file".
ReadManifestFail ==
    /\ pc = "manifests" /\ n_globbed < Len(Walk(tree))
    /\ IsFile(NextEntry)
    /\ pc' = "error" /\ fatal' = "read manifest"
    /\ UNCHANGED <<model_dir, tree, index_vars, log_vars, report_vars>>

\* One iteration of the glob loop on a directory: path.is_file() is false.
VisitDirectory ==
    /\ pc = "manifests" /\ n_globbed < Len(Walk(tree))
    /\ ~IsFile(NextEntry)
    /\ n_globbed' = n_globbed + 1
    /\ UNCHANGED <<pc, model_dir, tree, hash_to_name_size, log_vars, report_vars, fatal>>

\* One iteration of the glob loop on a file that can be read.
VisitFile ==
    /\ pc = "manifests" /\ n_globbed < Len(Walk(tree))
    /\ IsFile(NextEntry)
    /\ n_globbed' = n_globbed + 1
    /\ hash_to_name_size' =
          IndexManifest(hash_to_name_size, ManifestDir \o NextEntry,
                        File(NextEntry).content)
    /\ UNCHANGED <<pc, model_dir, tree, log_vars, report_vars, fatal>>

\* The walk is over: find_model_manifests returns Ok(index).
GlobDone ==
    /\ pc = "manifests" /\ n_globbed = Len(Walk(tree))
    /\ pc' = "logs"
    /\ UNCHANGED <<model_dir, tree, index_vars, log_vars, report_vars, fatal>>

-----------------------------------------------------------------------------
(* parse_logs                                                              *)

\* Resolve, had the fallback taken the size of some indexed model.
ResolveStaleSize(index, hash) ==
    IF hash \in DOMAIN index
    THEN index[hash]
    ELSE [name |-> SubSeq(hash, 1, 8) \o "...-deleted",
          size |-> IF DOMAIN index = {} THEN 0
                   ELSE index[CHOOSE h \in DOMAIN index : TRUE].size]

\* The name and size a hash resolves to: the index entry, or the fallback.
Resolve(index, hash) ==
    IF hash \in DOMAIN index
    THEN index[hash]
    ELSE [name |-> SubSeq(hash, 1, 8) \o "...-deleted", size |-> 0]

\* RecordLoad, had it taken the cursor without comparing it to last_used.
RecordLoadOverwrite(usage, model_name, size, cursor, mtime) ==
    LET old == IF model_name \in DOMAIN usage THEN usage[model_name]
               ELSE [name |-> model_name,
                     last_used |-> IF cursor = {} THEN mtime
                                   ELSE CHOOSE t \in cursor : TRUE,
                     usage_count |-> 0,
                     size |-> size]
        counted == [old EXCEPT !.usage_count = @ + 1]
        new == IF cursor # {}
               THEN [counted EXCEPT !.last_used = CHOOSE t \in cursor : TRUE]
               ELSE counted
    IN  [n \in DOMAIN usage \cup {model_name} |-> IF n = model_name THEN new ELSE usage[n]]

\* entry(name).or_insert_with(..); usage_count += 1; raise last_used.
RecordLoad(usage, model_name, size, cursor, mtime) ==
    LET old == IF model_name \in DOMAIN usage THEN usage[model_name]
               ELSE [name |-> model_name,
                     last_used |-> IF cursor = {} THEN mtime
                                   ELSE CHOOSE t \in cursor : TRUE,
                     usage_count |-> 0,
                     size |-> size]
        counted == [old EXCEPT !.usage_count = @ + 1]
        new == IF \E t \in cursor : t > counted.last_used
               THEN [counted EXCEPT !.last_used = CHOOSE t \in cursor : TRUE]
               ELSE counted
    IN  [n \in DOMAIN usage \cup {model_name} |-> IF n = model_name THEN new ELSE usage[n]]

\* History of a load event: which hashes a name was reached from, how many
\* events it got, and the latest of their timestamps (the cursor, or the
\* file's modification time when the file has shown no timestamp yet).
NoteLoad(hist, hash, model_name, cursor, mtime) ==
    LET at == IF cursor = {} THEN mtime ELSE CHOOSE t \in cursor : TRUE
        old == IF model_name \in DOMAIN hist THEN hist[model_name]
               ELSE [hashes |-> {}, count |-> 0, latest |-> at]
        new == [hashes |-> old.hashes \cup {hash}, count |-> old.count + 1,
                latest |-> IF at > old.latest THEN at ELSE old.latest]
    IN  [n \in DOMAIN hist \cup {model_name} |-> IF n = model_name THEN new ELSE hist[n]]

IsTimeLine(line) == StartsWith(line, "time=")

IsSlashDateLine(line) ==
    /\ ~IsTimeLine(line)
    /\ Len(line) > 19 /\ Char(line, 5) = "/" /\ Char(line, 8) = "/"

IsMarkerLine(line) ==
    /\ ~IsTimeLine(line) /\ ~IsSlashDateLine(line)
    /\ StartsWith(line, Marker)

\* OpenLogFail, had the failure been passed over instead of returned.
OpenLogFailSkipped ==
    /\ pc = "logs" /\ n_files < MaxLogFiles
    /\ fatal = None
    /\ n_files' = n_files + 1
    /\ fatal' = "open log"
    /\ UNCHANGED <<pc, model_dir, tree, index_vars, model_usage, seen_hashes, file_time,
                   last_timestamp, n_lines, history, report_vars>>

\* File::open fails.
OpenLogFail ==
    /\ pc = "logs" /\ n_files < MaxLogFiles
    /\ pc' = "error" /\ fatal' = "open log"
    /\ UNCHANGED <<model_dir, tree, index_vars, log_vars, report_vars>>

\* file.metadata() or metadata.modified() fails.
MetadataFail ==
    /\ pc = "logs" /\ n_files < MaxLogFiles
    /\ pc' = "error" /\ fatal' = "log metadata"
    /\ UNCHANGED <<model_dir, tree, index_vars, log_vars, report_vars>>

\* The next log file is opened: its cursor starts empty.
OpenLog ==
    /\ pc = "logs" /\ n_files < MaxLogFiles
    /\ \E mtime \in FileTimes : file_time' = mtime
    /\ last_timestamp' = {}
    /\ n_files' = n_files + 1
    /\ pc' = "lines"
    /\ UNCHANGED <<model_dir, tree, index_vars, model_usage, seen_hashes, n_lines, history,
                   report_vars, fatal>>

\* reader.lines() yields an Err.
ReadLineFail ==
    /\ pc = "lines"
    /\ pc' = "error" /\ fatal' = "read line"
    /\ UNCHANGED <<model_dir, tree, index_vars, log_vars, report_vars>>

\* A "time=" line: the cursor moves when the rest parses as RFC 3339.
TimeLine ==
    /\ pc = "lines" /\ n_lines < MaxLines
    /\ \E line \in LogLines :
        /\ IsTimeLine(line)
        /\ LET timestamp == ParseRfc3339(SubSeq(line, 6, Len(line)))
           IN  last_timestamp' = IF timestamp >= 0 THEN {timestamp} ELSE last_timestamp
    /\ n_lines' = n_lines + 1
    /\ UNCHANGED <<pc, model_dir, tree, index_vars, model_usage, seen_hashes, file_time,
                   n_files, history, report_vars, fatal>>

\* A "YYYY/MM/DD HH:MM:SS" line: the cursor moves when the prefix parses.
SlashDateLine ==
    /\ pc = "lines" /\ n_lines < MaxLines
    /\ \E line \in LogLines :
        /\ IsSlashDateLine(line)
        /\ LET naive == ParseLocalSlash(SubSeq(line, 1, 19))
           IN  last_timestamp' = IF naive >= 0 THEN {naive} ELSE last_timestamp
    /\ n_lines' = n_lines + 1
    /\ UNCHANGED <<pc, model_dir, tree, index_vars, model_usage, seen_hashes, file_time,
                   n_files, history, report_vars, fatal>>

\* A marker line without "sha256-": nothing happens.
MarkerNoToken ==
    /\ pc = "lines" /\ n_lines < MaxLines
    /\ \E line \in LogLines : IsMarkerLine(line) /\ Find(line, "sha256-") < 0
    /\ n_lines' = n_lines + 1
    /\ UNCHANGED <<pc, model_dir, tree, index_vars, model_usage, seen_hashes, file_time,
                   last_timestamp, n_files, history, report_vars, fatal>>

\* A marker line whose "sha256-" has fewer than 64 bytes after it: the slice
\* line[hash_start + 7..hash_start + 71] is out of range and the thread panics.
MarkerSlicePanic ==
    /\ pc = "lines" /\ n_lines < MaxLines
    /\ \E line \in LogLines :
        /\ IsMarkerLine(line)
        /\ Find(line, "sha256-") >= 0
        /\ Find(line, "sha256-") + 71 > Len(line)
    /\ pc' = "panic"
    /\ UNCHANGED <<model_dir, tree, index_vars, log_vars, report_vars, fatal>>

\* A marker line with 64 bytes after "sha256-": a load is recorded.
MarkerLoad ==
    /\ pc = "lines" /\ n_lines < MaxLines
    /\ \E line \in LogLines :
        /\ IsMarkerLine(line)
        /\ Find(line, "sha256-") >= 0
        /\ Find(line, "sha256-") + 71 <= Len(line)
        /\ LET hash_start == Find(line, "sha256-")
               hash == SubSeq(line, hash_start + 8, hash_start + 71)
               resolved == Resolve(hash_to_name_size, hash)
           IN  /\ seen_hashes' = seen_hashes \cup {hash}
               /\ model_usage' = RecordLoad(model_usage, resolved.name, resolved.size,
                                            last_timestamp, file_time)
               /\ history' = NoteLoad(history, hash, resolved.name,
                                      last_timestamp, file_time)
    /\ n_lines' = n_lines + 1
    /\ UNCHANGED <<pc, model_dir, tree, index_vars, file_time, last_timestamp, n_files,
                   report_vars, fatal>>

\* Any other line is passed over.
OtherLine ==
    /\ pc = "lines" /\ n_lines < MaxLines
    /\ \E line \in LogLines :
        ~IsTimeLine(line) /\ ~IsSlashDateLine(line) /\ ~IsMarkerLine(line)
    /\ n_lines' = n_lines + 1
    /\ UNCHANGED <<pc, model_dir, tree, index_vars, model_usage, seen_hashes, file_time,
                   last_timestamp, n_files, history, report_vars, fatal>>

\* The file has no more lines; its handle, time and cursor go out of scope.
EndOfFile ==
    /\ pc = "lines"
    /\ pc' = "logs"
    /\ file_time' = 0
    /\ last_timestamp' = {}
    /\ UNCHANGED <<model_dir, tree, index_vars, model_usage, seen_hashes, n_files, n_lines,
                   history,
                   report_vars, fatal>>

-----------------------------------------------------------------------------
(* main: the three views and the tables                                    *)

\* The orders in which a HashMap may yield the keys S.
Orders(S) ==
    {f \in [1..Cardinality(S) -> S] : \A i, j \in DOMAIN f : i # j => f[i] # f[j]}

\* The filter of the Deleted view: the name ends with "-deleted".
IsDeletedName(name) == EndsWith(name, "-deleted")

\* The comparator of the usage tables: later last_used first, then larger count.
UsageBefore(a, b) ==
    \/ a.last_used > b.last_used
    \/ a.last_used = b.last_used /\ a.usage_count > b.usage_count

\* The comparator of the Unlogged view: by name, ascending.
NameBefore(a, b) == StrLess(a.name, b.name)

\* Vec::sort_by is stable: each element goes after the elements it does not precede.
RECURSIVE SortUsages(_)
SortUsages(seq) ==
    IF seq = <<>> THEN <<>>
    ELSE LET sorted == SortUsages(SubSeq(seq, 1, Len(seq) - 1))
             x == seq[Len(seq)]
             k == Cardinality({i \in DOMAIN sorted : ~UsageBefore(x, sorted[i])})
         IN  SubSeq(sorted, 1, k) \o <<x>> \o SubSeq(sorted, k + 1, Len(sorted))

RECURSIVE SortByName(_)
SortByName(seq) ==
    IF seq = <<>> THEN <<>>
    ELSE LET sorted == SortByName(SubSeq(seq, 1, Len(seq) - 1))
             x == seq[Len(seq)]
             k == Cardinality({i \in DOMAIN sorted : ~NameBefore(x, sorted[i])})
         IN  SubSeq(sorted, 1, k) \o <<x>> \o SubSeq(sorted, k + 1, Len(sorted))

\* flat_map(|(name, size)| name.split(", ").map(|n| (n, size)))
RECURSIVE SubNames(_)
SubNames(entries) ==
    IF entries = <<>> THEN <<>>
    ELSE LET e == Head(entries)
             parts == Split(e.name, ", ")
         IN  [i \in DOMAIN parts |-> [name |-> parts[i], size |-> e.size]]
             \o SubNames(Tail(entries))

\* IsLogged, had it compared the whole usage name.
IsLoggedWholeName(usages, name) == \E i \in DOMAIN usages : usages[i].name = name

\* model_usage.values().any(|m| m.name.split(", ").any(|u| u == name))
IsLogged(usages, name) ==
    \E i \in DOMAIN usages : \E u \in Range(Split(usages[i].name, ", ")) : u = name

\* The Unlogged view before it is sorted.
UnloggedOf(entries, usages) ==
    LET Keep(e) == ~IsLogged(usages, e.name)
    IN  SelectSeq(SubNames(entries), Keep)

\* print_table's test for a table without usage columns.
IsUnloggedTable(models) ==
    \A i \in DOMAIN models : models[i].usage_count = 0 /\ models[i].last_used = Now

\* print_table: the lines of one usage table, a line being its cells (widths
\* and the formats of dates and sizes are left out).
print_table(models, title) ==
    IF models = <<>> THEN <<>>
    ELSE LET is_deleted == \E i \in DOMAIN models : IsDeletedName(models[i].name)
             show_size == ~is_deleted
         IN  <<<<>>, <<title>>>> \o
             IF IsUnloggedTable(models)
             THEN <<<<"Model", "Size">>, <<"-", "-">>>> \o
                  [i \in DOMAIN models |-> <<models[i].name, models[i].size>>]
             ELSE IF show_size
             THEN <<<<"Model", "Last Used", "Usage Count", "Size">>, <<"-", "-", "-", "-">>>> \o
                  [i \in DOMAIN models |-> <<models[i].name, models[i].last_used,
                                            models[i].usage_count, models[i].size>>]
             ELSE <<<<"Model", "Last Used", "Usage Count">>, <<"-", "-", "-">>>> \o
                  [i \in DOMAIN models |-> <<models[i].name, models[i].last_used,
                                            models[i].usage_count>>]

\* The Unlogged section of the report.
print_unlogged(unlogged) ==
    IF unlogged = <<>> THEN <<>>
    ELSE <<<<>>, <<"Unlogged Models:">>, <<"---------------">>,
           <<"Model", "Size">>, <<"-", "-">>>> \o
         [i \in DOMAIN unlogged |-> <<unlogged[i].name, unlogged[i].size>>]

\* parse_logs has returned Ok: main builds the views and prints the report.
Report ==
    /\ pc = "logs"
    /\ \E uorder \in Orders(DOMAIN model_usage),
          iorder \in Orders(DOMAIN hash_to_name_size) :
        LET usages == [i \in DOMAIN uorder |-> model_usage[uorder[i]]]
            entries == [i \in DOMAIN iorder |-> hash_to_name_size[iorder[i]]]
            NotDeleted(m) == ~IsDeletedName(m.name)
            Deleted(m) == IsDeletedName(m.name)
            active == SortUsages(SelectSeq(usages, NotDeleted))
            deleted == SortUsages(SelectSeq(usages, Deleted))
            unlogged == SortByName(UnloggedOf(entries, usages))
        IN  /\ active_models' = active
            /\ deleted_models' = deleted
            /\ unlogged_models' = unlogged
            /\ stdout' = print_table(active, "Active Models:") \o print_unlogged(unlogged)
                         \o print_table(deleted, "Deleted Models:") \o <<<<>>>>
    /\ pc' = "done"
    /\ UNCHANGED <<model_dir, tree, index_vars, log_vars, fatal>>

-----------------------------------------------------------------------------
InitRun ==
    /\ pc = "manifests"
    /\ hash_to_name_size = EmptyMap
    /\ n_globbed = 0
    /\ model_usage = EmptyMap
    /\ seen_hashes = {}
    /\ file_time = 0
    /\ last_timestamp = {}
    /\ n_files = 0
    /\ n_lines = 0
    /\ history = EmptyMap
    /\ active_models = <<>>
    /\ deleted_models = <<>>
    /\ unlogged_models = <<>>
    /\ stdout = <<>>
    /\ fatal = None

\* The whole run with OLLAMA_MODELS=/usr/share/ollama, on a platform that
\* has log files, over the trees of Trees.
Init ==
    /\ model_dir = <<"/", "usr", "share", "ollama">>
    /\ tree \in Trees
    /\ InitRun

Next ==
    \/ GlobPatternFail \/ GlobEntryFail \/ ReadManifestFail
    \/ VisitDirectory \/ VisitFile \/ GlobDone
    \/ OpenLogFail \/ MetadataFail \/ OpenLog \/ ReadLineFail
    \/ TimeLine \/ SlashDateLine \/ MarkerNoToken \/ MarkerSlicePanic \/ MarkerLoad
    \/ OtherLine \/ EndOfFile
    \/ Report

Spec == Init /\ [][Next]_vars

\* The run on a platform without log files (get_log_paths() is empty), over
\* every tree of at most MaxManifests files and every model directory.
InitIndex ==
    /\ model_dir \in ModelDirs
    /\ tree \in {t \in SUBSET ManifestFiles : Cardinality(t) <= MaxManifests}
    /\ InitRun

NextIndex ==
    \/ GlobPatternFail \/ GlobEntryFail \/ ReadManifestFail
    \/ VisitDirectory \/ VisitFile \/ GlobDone
    \/ Report

SpecIndex == InitIndex /\ [][NextIndex]_vars

-----------------------------------------------------------------------------
(* Properties                                                              *)

UsageNames == DOMAIN model_usage

NamesOf(rows) == {rows[i].name : i \in DOMAIN rows}

\* The sub-names of a (possibly composite) name.
SubNamesOf(name) == Range(Split(name, ", "))

RECURSIVE JoinNames(_)
JoinNames(names) ==
    IF names = <<>> THEN ""
    ELSE IF Len(names) = 1 THEN names[1]
    ELSE names[1] \o ", " \o JoinNames(Tail(names))

\* The files the glob loop has taken so far, in the order it took them.
VisitedFiles == SelectSeq(SubSeq(Walk(tree), 1, n_globbed), IsFile)

\* The files among them that were indexed: a manifest with a model layer whose
\* path gave a name; each with the bare hex of its digest (its last 64 characters).
IndexedManifests ==
    LET Gives(rel) ==
            /\ File(rel).content.json
            /\ FindModelLayer(File(rel).content.layers) # 0
            /\ parse_manifest_path(ManifestDir \o rel) # None
        kept == SelectSeq(VisitedFiles, Gives)
    IN  [i \in DOMAIN kept |->
            LET layers == File(kept[i]).content.layers
                layer == layers[FindModelLayer(layers)]
            IN  [hash |-> SubSeq(layer.digest, Len(layer.digest) - 63, Len(layer.digest)),
                 name |-> parse_manifest_path(ManifestDir \o kept[i]),
                 size |-> layer.size]]

\* C1: once parse_logs has returned, every usage's last_used is the latest of
\* the timestamps of the load events attributed to its name, an event's
\* timestamp being the file's cursor or, before any timestamp line of the
\* file, the file's modification time.
C1_LastUsedIsLatestEvent ==
    pc = "done" =>
        \A n \in UsageNames : model_usage[n].last_used = history[n].latest

\* C2: every usage in the Active view comes from load events whose hash is a
\* key of the index, every usage in the Deleted view from load events whose
\* hash is not, and every usage is in exactly one of the two views.
C2_PartitionByIndex ==
    pc = "done" =>
        /\ \A i \in DOMAIN active_models :
              history[active_models[i].name].hashes \subseteq DOMAIN hash_to_name_size
        /\ \A i \in DOMAIN deleted_models :
              history[deleted_models[i].name].hashes \cap DOMAIN hash_to_name_size = {}
        /\ NamesOf(active_models) \cup NamesOf(deleted_models) = UsageNames
        /\ NamesOf(active_models) \cap NamesOf(deleted_models) = {}
        /\ Len(active_models) + Len(deleted_models) = Cardinality(UsageNames)

\* C3: a marker line whose hash token is missing or malformed is ignored: it
\* never aborts the run and never reaches the usage map, so every hash the
\* run has recorded is 64 lowercase hex characters.
C3_MalformedTokenIgnored ==
    /\ pc # "panic"
    /\ \A h \in seen_hashes : Len(h) = 64 /\ IsLowerHex(h)
    /\ \A n \in UsageNames : \A h \in history[n].hashes : Len(h) = 64 /\ IsLowerHex(h)

\* C4: the Unlogged view holds exactly the sub-names (with their sizes) of the
\* index entries whose hash has no load event in any log.
C4_UnloggedByHash ==
    pc = "done" =>
        Range(unlogged_models) =
            UNION { { [name |-> sub, size |-> hash_to_name_size[h].size] :
                        sub \in SubNamesOf(hash_to_name_size[h].name) } :
                    h \in DOMAIN hash_to_name_size \ seen_hashes }

\* C5: a manifest file whose path relative to the manifests root has fewer
\* than four segments is skipped: visiting it leaves the index as it was and
\* does not end the run.
C5_ShortPathSkipped ==
    [][ ( /\ pc = "manifests" /\ n_globbed' = n_globbed + 1
          /\ IsFile(NextEntry) /\ Len(NextEntry) < 4 )
        => ( hash_to_name_size' = hash_to_name_size /\ pc' = "manifests" ) ]_vars

\* C6: a fatal failure ends the run at once with an error and nothing on
\* stdout; whatever is printed is printed after every manifest and every log
\* file has been read without a failure.
C6_NoPartialReport ==
    /\ fatal # None => pc = "error"
    /\ pc = "error" => fatal # None /\ stdout = <<>> /\ ~ENABLED Next
    /\ stdout # <<>> => /\ pc = "done" /\ fatal = None
                        /\ n_globbed = Len(Walk(tree))

C6_Witness ==
    /\ pc = "error" /\ fatal = "read line"
    /\ n_files = 2 /\ UsageNames # {} /\ DOMAIN hash_to_name_size # {}

\* C7: the Unlogged view is the collection of the sub-names of the index
\* entries' names that equal no sub-name of any usage's name; with an entry
\* "llama3:8b, llama3:latest" and a usage only under "llama3:8b" it holds
\* llama3:latest and not llama3:8b; no sub-name is both unlogged and used.
C7_UnloggedBySubName ==
    pc = "done" =>
        LET used == UNION {SubNamesOf(n) : n \in UsageNames}
            slots == { <<h, i>> \in (DOMAIN hash_to_name_size) \X (1..8) :
                         /\ i <= Len(Split(hash_to_name_size[h].name, ", "))
                         /\ Split(hash_to_name_size[h].name, ", ")[i] \notin used }
        IN  /\ NamesOf(unlogged_models) =
                  { Split(hash_to_name_size[s[1]].name, ", ")[s[2]] : s \in slots }
            /\ Len(unlogged_models) = Cardinality(slots)
            /\ NamesOf(unlogged_models) \cap used = {}
            /\ ( /\ \E h \in DOMAIN hash_to_name_size :
                        hash_to_name_size[h].name = "llama3:8b, llama3:latest"
                 /\ UsageNames = {"llama3:8b"} )
               => ( /\ "llama3:latest" \in NamesOf(unlogged_models)
                    /\ "llama3:8b" \notin NamesOf(unlogged_models) )

C7_Witness ==
    /\ pc = "done"
    /\ HashA \in DOMAIN hash_to_name_size
    /\ hash_to_name_size[HashA].name = "llama3:8b, llama3:latest"
    /\ UsageNames = {"llama3:8b"}
    /\ NamesOf(unlogged_models) = {"llama3:latest"}

\* C8: a load event whose hash is not in the index goes to the usage named
\* <first 8 characters of the hash>...-deleted, of size 0.
C8_DeletedNaming ==
    \A n \in DOMAIN history : \A h \in history[n].hashes :
        (h \notin DOMAIN hash_to_name_size /\ IsLowerHex(h))
        => /\ n = SubSeq(h, 1, 8) \o "...-deleted"
           /\ n \in UsageNames
           /\ model_usage[n].name = n
           /\ model_usage[n].size = 0

\* C8: each further load event for such a hash adds one to that usage's count
\* and creates no entry.
C8_DeletedCounting ==
    \A n \in DOMAIN history' :
        ( /\ n \in DOMAIN history
          /\ history'[n].count # history[n].count
          /\ \E h \in history'[n].hashes : h \notin DOMAIN hash_to_name_size /\ IsLowerHex(h) )
        => /\ n \in UsageNames
           /\ DOMAIN model_usage' = UsageNames
           /\ model_usage'[n].usage_count = model_usage[n].usage_count + 1

C8_DeletedFallback == []C8_DeletedNaming /\ [][C8_DeletedCounting]_vars

C8_Witness ==
    /\ HashA \notin DOMAIN hash_to_name_size
    /\ "deadbeef...-deleted" \in UsageNames
    /\ model_usage["deadbeef...-deleted"].usage_count >= 2
    /\ model_usage["deadbeef...-deleted"].size = 0
    /\ history["deadbeef...-deleted"].hashes = {HashA}

\* C9: for every key of the index (the bare hex of the model layer's digest)
\* the name is the names of the indexed manifests of that hash joined by ", "
\* in processing order, duplicates kept, and the size is that of the last one.
C9_IndexIsJoinOfManifests ==
    /\ DOMAIN hash_to_name_size = {m.hash : m \in Range(IndexedManifests)}
    /\ \A h \in DOMAIN hash_to_name_size :
          LET Mine(m) == m.hash = h
              mine == SelectSeq(IndexedManifests, Mine)
          IN  /\ hash_to_name_size[h].name = JoinNames([i \in DOMAIN mine |-> mine[i].name])
              /\ hash_to_name_size[h].size = mine[Len(mine)].size

C9_Witness ==
    /\ pc = "logs"
    /\ DOMAIN hash_to_name_size = {HashA}
    /\ hash_to_name_size[HashA].name = "llama3:latest, llama3:8b, llama3:latest"
    /\ hash_to_name_size[HashA].size = 8192

\* C10: every usage's count is the number of load events resolved to its name
\* so far, hence at least 1.
C10_CountIsEvents ==
    /\ UsageNames = DOMAIN history
    /\ \A n \in UsageNames :
          /\ model_usage[n].usage_count = history[n].count
          /\ model_usage[n].usage_count >= 1

\* C10: a step removes no usage and lowers no count and no last_used, and a
\* step that is not a load event leaves the usage map as it was.
C10_Monotone ==
    /\ UsageNames \subseteq DOMAIN model_usage'
    /\ \A n \in UsageNames :
          /\ model_usage'[n].usage_count >= model_usage[n].usage_count
          /\ model_usage'[n].last_used >= model_usage[n].last_used
    /\ history' = history => model_usage' = model_usage

=============================================================================
